---------------------------- MODULE Spec2Model ----------------------------
(***************************************************************************)
(* A model of SnakeByte's BinaryFileViewer (src/snakebyte.py): the search  *)
(* engine (search, _append_search_results, next/prev), the codec registry  *)
(* (load_custom_encodings, cycle_encoding) and the key handlers of run()   *)
(* that move the current offset or the search cursor.  self.search_pattern *)
(* is read by the investigate status line only, which is not modelled: the *)
(* last query is kept in the record of the last call instead.              *)
(*                                                                         *)
(* Python strings are sequences of code points, bytes objects sequences of *)
(* integers 0..255, and Python's 0-based offsets are kept: offset h of the *)
(* file is file_content[h + 1].                                            *)
(***************************************************************************)
EXTENDS Integers, Sequences, FiniteSets, TLC

(***************************************************************************)
(* Bounds of the model.                                                    *)
(***************************************************************************)
MaxFileLen == 4

\* The byte values files are made of: NUL and '0'.
FileBytes == {0, 48}

Files == UNION {[1..n -> FileBytes] : n \in 0..MaxFileLen}

(***************************************************************************)
(* The queries typed at the search prompt, as code points.                 *)
(***************************************************************************)
Queries ==
    { <<>>,                                      \* ""
      <<0>>,                                     \* NUL (Ctrl-@ at the prompt)
      <<97>>,                                    \* "a"
      <<233>>,                                   \* e-acute: not ASCII
      <<48>>,                                    \* "0"
      <<48, 48>>,                                \* "00"
      <<52, 56>>,                                \* "48"   = 0x0030
      <<178>>,                                   \* superscript two: isdigit(), no int
      <<51, 49, 52, 53, 55, 50, 56>>,            \* "3145728"    = 0x00300000
      <<52, 50, 57, 52, 57, 54, 55, 50, 57, 53>>,\* "4294967295" = 2^32 - 1
      <<52, 50, 57, 52, 57, 54, 55, 50, 57, 54>>,\* "4294967296" = 2^32
      <<48, 120, 51, 48>>,                       \* "0x30"
      <<48, 88, 48>>,                            \* "0X0"
      <<48, 120>>,                               \* "0x"
      <<48, 120, 103>>,                          \* "0xg"
      <<48, 120, 48, 51, 48>>,                   \* "0x030": three hex digits
      <<48, 120, 32, 32, 51, 48>> }              \* "0x  30": blanks, then 30

(***************************************************************************)
(* Sequences and integers.                                                 *)
(***************************************************************************)
RECURSIVE Flatten(_)
Flatten(ss) == IF ss = <<>> THEN <<>> ELSE Head(ss) \o Flatten(Tail(ss))

Reverse(s) == [i \in 1..Len(s) |-> s[Len(s) + 1 - i]]

Range(s) == {s[i] : i \in 1..Len(s)}

Max(a, b) == IF a >= b THEN a ELSE b

Min(a, b) == IF a <= b THEN a ELSE b

Abs(a) == IF a >= 0 THEN a ELSE -a

(***************************************************************************)
(* The codec registry: __init__'s built-in list, and what str.encode does  *)
(* under each name for code points below 256.                              *)
(***************************************************************************)
BuiltinEncodings ==
    << "ascii", "utf-8", "latin-1", "cp1252",
       "utf-16-le", "utf-16-be", "utf-32-le", "utf-32-be" >>

\* The codec names the Python runtime can look up; any other name raises
\* LookupError.
KnownCodecs == Range(BuiltinEncodings)

\* Code points 0x80..0x9f have no cp1252 byte (cp1252 maps those bytes to
\* other characters or to nothing).
CanEncodeChar(c, codec) ==
    CASE codec = "ascii"  -> c < 128
      [] codec = "cp1252" -> c < 128 \/ c >= 160
      [] OTHER            -> TRUE

EncodeChar(c, codec) ==
    CASE codec \in {"ascii", "latin-1", "cp1252"} -> <<c>>
      [] codec = "utf-8" ->
            IF c < 128 THEN <<c>> ELSE <<192 + (c \div 64), 128 + (c % 64)>>
      [] codec = "utf-16-le" -> <<c % 256, c \div 256>>
      [] codec = "utf-16-be" -> <<c \div 256, c % 256>>
      [] codec = "utf-32-le" -> <<c % 256, c \div 256, 0, 0>>
      [] codec = "utf-32-be" -> <<0, 0, c \div 256, c % 256>>

\* pattern.encode(codec) returns normally (no LookupError, no
\* UnicodeEncodeError).
CanEncode(s, codec) ==
    /\ codec \in KnownCodecs
    /\ \A i \in 1..Len(s) : CanEncodeChar(s[i], codec)

Encode(s, codec) == Flatten([i \in 1..Len(s) |-> EncodeChar(s[i], codec)])

(***************************************************************************)
(* Numbers: str.isdigit, int(), int.to_bytes and struct.pack('f').         *)
(***************************************************************************)
\* The code points below 256 for which str.isdigit() is true: the ASCII
\* digits and the superscripts two, three and one.
DigitChars == (48..57) \cup {178, 179, 185}

IsDigit(s) == s # <<>> /\ \A i \in 1..Len(s) : s[i] \in DigitChars

\* int(s) returns normally for an isdigit() string of ASCII digits only; a
\* superscript digit raises ValueError.
IntOK(s) == \A i \in 1..Len(s) : s[i] \in 48..57

\* int(s), saturated at IntCap: search only ever uses the value after
\* to_bytes(2) has accepted it, that is when it is at most 65535.
IntCap == 1000000

RECURSIVE IntOfFrom(_, _)
IntOfFrom(s, acc) ==
    IF s = <<>> THEN acc
    ELSE LET v == acc * 10 + (Head(s) - 48)
         IN  IntOfFrom(Tail(s), IF v > IntCap THEN IntCap ELSE v)

IntOf(s) == IntOfFrom(s, 0)

\* num_val.to_bytes(2, ...) raises OverflowError above 65535.
Fits16(v) == v <= 65535

\* v.to_bytes(n, byteorder='little'), for a value that fits.
RECURSIVE ToBytesLE(_, _)
ToBytesLE(v, n) ==
    IF n = 0 THEN <<>> ELSE <<v % 256>> \o ToBytesLE(v \div 256, n - 1)

\* to_bytes with the two byte orders exchanged.
ToBytesSwapped(v, n, byteorder) ==
    IF byteorder = "little" THEN Reverse(ToBytesLE(v, n)) ELSE ToBytesLE(v, n)

ToBytes(v, n, byteorder) ==
    IF byteorder = "little" THEN ToBytesLE(v, n) ELSE Reverse(ToBytesLE(v, n))

RECURSIVE Pow2(_)
Pow2(n) == IF n = 0 THEN 1 ELSE 2 * Pow2(n - 1)

RECURSIVE Log2Floor(_)
Log2Floor(v) == IF v < 2 THEN 0 ELSE 1 + Log2Floor(v \div 2)

\* The IEEE-754 binary32 word of float(v), for an integer 0 <= v < 2^24
\* (exactly representable: sign 0, biased exponent, 23-bit fraction).
Float32Bits(v) ==
    IF v = 0 THEN 0
    ELSE LET e == Log2Floor(v)
         IN  (127 + e) * Pow2(23) + (v - Pow2(e)) * Pow2(23 - e)

\* struct.pack('<f', float(v)) and struct.pack('>f', float(v)).
PackFloat(v, byteorder) == ToBytes(Float32Bits(v), 4, byteorder)

(***************************************************************************)
(* bytes.fromhex.                                                          *)
(***************************************************************************)
HexDigitChars == (48..57) \cup (65..70) \cup (97..102)

WhitespaceChars == {9, 10, 11, 12, 13, 32}

HexValue(c) ==
    IF c \in 48..57 THEN c - 48
    ELSE IF c \in 65..70 THEN c - 55
    ELSE c - 87

\* bytes.fromhex(s) skips ASCII whitespace before a byte and then needs two
\* adjacent hex digits; anything else raises ValueError.
RECURSIVE FromHexOK(_)
FromHexOK(s) ==
    IF s = <<>> THEN TRUE
    ELSE IF Head(s) \in WhitespaceChars THEN FromHexOK(Tail(s))
    ELSE /\ Len(s) >= 2
         /\ s[1] \in HexDigitChars
         /\ s[2] \in HexDigitChars
         /\ FromHexOK(SubSeq(s, 3, Len(s)))

RECURSIVE FromHex(_)
FromHex(s) ==
    IF s = <<>> THEN <<>>
    ELSE IF Head(s) \in WhitespaceChars THEN FromHex(Tail(s))
    ELSE <<16 * HexValue(s[1]) + HexValue(s[2])>> \o FromHex(SubSeq(s, 3, Len(s)))

\* pattern.lower().startswith('0x')
IsHexQuery(s) == Len(s) >= 2 /\ s[1] = 48 /\ s[2] \in {120, 88}

\* pattern[2:] with the '0' put after an odd number of digits.
HexValPadRight(s) ==
    LET h == SubSeq(s, 3, Len(s))
    IN  IF Len(h) % 2 # 0 THEN h \o <<48>> ELSE h

\* pattern[2:], left-padded with '0' to an even length.
HexVal(s) ==
    LET h == SubSeq(s, 3, Len(s))
    IN  IF Len(h) % 2 # 0 THEN <<48>> \o h ELSE h

(***************************************************************************)
(* The scan: bytes.find and _append_search_results.                        *)
(***************************************************************************)
MatchesAt(content, pattern, h) ==
    /\ h + Len(pattern) <= Len(content)
    /\ \A i \in 1..Len(pattern) : content[h + i] = pattern[i]

\* content.find(pattern, start): the lowest offset >= start where pattern
\* occurs, or -1; a negative start counts from the end and stops at 0.
RECURSIVE Find(_, _, _)
Find(content, pattern, start) ==
    IF start < 0 THEN Find(content, pattern, Max(0, start + Len(content)))
    ELSE IF start + Len(pattern) > Len(content) THEN -1
    ELSE IF MatchesAt(content, pattern, start) THEN start
    ELSE Find(content, pattern, start + 1)

\* A scan that resumes after the whole match instead of one byte after its
\* start.
RECURSIVE ScanFromPastMatch(_, _, _)
ScanFromPastMatch(content, pattern, start) ==
    IF ~(start < Len(content)) THEN <<>>
    ELSE LET pos == Find(content, pattern, start)
         IN  IF pos = -1 THEN <<>>
             ELSE <<pos>> \o ScanFromPastMatch(content, pattern,
                                               pos + Max(1, Len(pattern)))

\* The offsets one call of _append_search_results appends, in the order it
\* appends them: the loop "while start < file_size".
RECURSIVE ScanFrom(_, _, _)
ScanFrom(content, pattern, start) ==
    IF ~(start < Len(content)) THEN <<>>
    ELSE LET pos == Find(content, pattern, start)
         IN  IF pos = -1 THEN <<>>
             ELSE <<pos>> \o ScanFrom(content, pattern, pos + 1)

\* _append_search_results(pattern, from_offset, match_type) on the lists
\* hits = [results, types].
AppendSearchResults(content, hits, pattern, from_offset, match_type) ==
    LET found == ScanFrom(content, pattern, from_offset)
    IN  [results |-> hits.results \o found,
         types   |-> hits.types \o [i \in 1..Len(found) |-> match_type]]

(***************************************************************************)
(* The candidates of one query (search's three branches).                  *)
(***************************************************************************)
Candidate(bytes, match_type) == [bytes |-> bytes, tag |-> match_type]

\* The seven scans with the two 16-bit ones exchanged.
NumericCandidatesBigEndianFirst(ascii_bytes, v) ==
    << Candidate(ascii_bytes, "ascii"),
       Candidate(ToBytes(v, 2, "big"), "int16be"),
       Candidate(ToBytes(v, 2, "little"), "int16le"),
       Candidate(ToBytes(v, 4, "little"), "int32le"),
       Candidate(ToBytes(v, 4, "big"), "int32be"),
       Candidate(PackFloat(v, "little"), "float32le"),
       Candidate(PackFloat(v, "big"), "float32be") >>

\* The numeric branch once num_val.to_bytes has accepted the value: the
\* seven scans in the order search makes them.
NumericCandidates(ascii_bytes, v) ==
    << Candidate(ascii_bytes, "ascii"),
       Candidate(ToBytes(v, 2, "little"), "int16le"),
       Candidate(ToBytes(v, 2, "big"), "int16be"),
       Candidate(ToBytes(v, 4, "little"), "int32le"),
       Candidate(ToBytes(v, 4, "big"), "int32be"),
       Candidate(PackFloat(v, "little"), "float32le"),
       Candidate(PackFloat(v, "big"), "float32be") >>

\* Whether search(pattern) leaves by an exception: str.encode is called
\* outside every try block, in the numeric and in the plain-text branch.
SearchRaises(pattern, codec) ==
    ~IsHexQuery(pattern) /\ ~CanEncode(pattern, codec)

\* The (bytes, tag) pairs search scans for, in order, when it does not raise.
Candidates(pattern, codec) ==
    IF IsHexQuery(pattern) THEN
        IF FromHexOK(HexVal(pattern))
        THEN << Candidate(FromHex(HexVal(pattern)), "hex") >>
        ELSE << >>
    ELSE IF IsDigit(pattern) THEN
        IF IntOK(pattern) /\ Fits16(IntOf(pattern))
        THEN NumericCandidates(Encode(pattern, codec), IntOf(pattern))
        ELSE << Candidate(Encode(pattern, codec), "ascii") >>
    ELSE << Candidate(Encode(pattern, codec), "ascii") >>

RECURSIVE ScanAll(_, _, _, _)
ScanAll(content, hits, cands, from_offset) ==
    IF cands = <<>> THEN hits
    ELSE ScanAll(content,
                 AppendSearchResults(content, hits, Head(cands).bytes,
                                     from_offset, Head(cands).tag),
                 Tail(cands), from_offset)

(***************************************************************************)
(* The viewer.                                                             *)
(***************************************************************************)
VARIABLES
    file_content,         \* self.file_content, read once by __init__
    current_offset,       \* self.current_offset
    search_results,       \* self.search_results
    search_result_types,  \* self.search_result_types
    current_search_idx,   \* self.current_search_idx
    encodings,            \* self.encodings
    encoding_idx,         \* self.encoding_idx
    encoding,             \* self.encoding
    show_investigate,     \* run()'s local toggle
    display_shift,        \* self.display_shift
    endian,               \* self.endian
    show_values,          \* self.show_values
    content_height,       \* run()'s local: the terminal's rows less four
    call                  \* the last operation: its name, its pattern and
                          \* from_offset arguments, and what it returned

searchVars == <<search_results, search_result_types, current_search_idx>>
codecVars  == <<encodings, encoding_idx, encoding>>
viewVars == <<display_shift, endian, show_values, content_height>>
vars == <<file_content, current_offset, searchVars, codecVars,
          show_investigate, viewVars, call>>

file_size == Len(file_content)

bytes_per_line == 16

\* The record of a call that takes no pattern.
NoPattern == << -1 >>

\* The line of a call that formats none.
NoLine == [result |-> <<>>, error_positions |-> <<>>, values |-> <<>>]

Call(op, pattern, from_offset, ret) ==
    [op |-> op, pattern |-> pattern, from |-> from_offset, ret |-> ret,
     line |-> NoLine]

\* The record of a call without arguments.
Called(op, ret) == Call(op, NoPattern, 0, ret)

\* The rows of an ordinary terminal, as getmaxyx reports them.
TerminalRows == 24

\* The viewer as __init__ leaves it on one of the files, in a terminal of
\* one of the heights.
InitOn(files, rows) ==
    /\ file_content \in files
    /\ current_offset = 0
    /\ search_results = <<>>
    /\ search_result_types = <<>>
    /\ current_search_idx = -1
    /\ encodings = BuiltinEncodings
    /\ encoding_idx = 0
    /\ encoding = BuiltinEncodings[1]
    /\ show_investigate = FALSE
    /\ display_shift = 0
    /\ endian = "little"
    /\ show_values = TRUE
    /\ content_height \in {r - 4 : r \in rows}
    /\ call = Called("init", "none")

Init == InitOn(Files, {TerminalRows})

\* The lists as the previous search left them.
KeptHits == [results |-> search_results, types |-> search_result_types]

\* The lists search starts from: it empties both before any branch.
ClearedHits == [results |-> <<>>, types |-> <<>>]

\* What search(pattern, from_offset) leaves in the two lists.
SearchHits(content, pattern, from_offset, codec) ==
    IF SearchRaises(pattern, codec) THEN ClearedHits
    ELSE ScanAll(content, ClearedHits, Candidates(pattern, codec), from_offset)

\* A search that puts the cursor on the first hit without asking whether
\* there is one.
SearchCursorAlwaysFirst(pattern) ==
    \E hits \in {SearchHits(file_content, pattern, current_offset, encoding)} :
        LET found == hits.results # <<>>
        IN  /\ search_results' = hits.results
            /\ search_result_types' = hits.types
            /\ current_search_idx' = 0
            /\ current_offset' =
                   IF found THEN hits.results[1] ELSE current_offset
            /\ call' = Call("search", pattern, current_offset,
                            IF SearchRaises(pattern, encoding) THEN "raised"
                            ELSE IF found THEN "true" ELSE "false")
            /\ UNCHANGED <<file_content, codecVars, show_investigate, viewVars>>

\* search(pattern, from_offset).
SearchFrom(pattern, from_offset) ==
    \E hits \in {SearchHits(file_content, pattern, from_offset, encoding)} :
        LET found == hits.results # <<>>
        IN  /\ search_results' = hits.results
            /\ search_result_types' = hits.types
            /\ current_search_idx' = IF found THEN 0 ELSE -1
            /\ current_offset' =
                   IF found THEN hits.results[1] ELSE current_offset
            /\ call' = Call("search", pattern, from_offset,
                            IF SearchRaises(pattern, encoding) THEN "raised"
                            ELSE IF found THEN "true" ELSE "false")
            /\ UNCHANGED <<file_content, codecVars, show_investigate, viewVars>>

\* search(pattern, self.current_offset), as the 's' key calls it.
Search(pattern) == SearchFrom(pattern, current_offset)

(***************************************************************************)
(* _append_search_results, one pass of its loop at a time, on the lists    *)
(* search has just emptied.                                                *)
(***************************************************************************)
\* A loop that looks again from the hit it has just found.
AfterHitSamePlace(pos) == pos

\* start = pos + 1
AfterHit(pos) == pos + 1

\* The local variable start: from_offset before the first pass, and what
\* the last pass that appended a hit has set it to.
ScanStart ==
    IF search_results = <<>> THEN call.from
    ELSE AfterHit(search_results[Len(search_results)])

\* One evaluation of "while start < self.file_size" and of the loop body.
ScanStep ==
    /\ call.op = "scan"
    /\ call.ret = "scanning"
    /\ \E start \in {ScanStart} :
           IF start < file_size
           THEN \E pos \in {Find(file_content, call.pattern, start)} :
                   IF pos = -1
                   THEN /\ call' = [call EXCEPT !.ret = "done"]
                        /\ UNCHANGED searchVars
                   ELSE /\ search_results' = Append(search_results, pos)
                        /\ search_result_types' =
                               Append(search_result_types, "unknown")
                        /\ UNCHANGED <<current_search_idx, call>>
           ELSE /\ call' = [call EXCEPT !.ret = "done"]
                /\ UNCHANGED searchVars
    /\ UNCHANGED <<file_content, current_offset, codecVars, show_investigate,
                   viewVars>>

\* A step forward that stops at the last hit.
NextIndexNoWrap(idx, count) == Min(idx + 1, count - 1)

NextIndex(idx, count) == (idx + 1) % count

PrevIndex(idx, count) == (idx - 1) % count

\* next_search_result and prev_search_result on a non-empty hit list.
MoveCursor(op, idx) ==
    /\ current_search_idx' = idx
    /\ current_offset' = search_results[idx + 1]
    /\ call' = Called(op, "true")
    /\ UNCHANGED <<file_content, search_results, search_result_types,
                   codecVars, show_investigate, viewVars>>

\* A call on an empty hit list that puts the cursor on a first hit anyway.
NoMoveCursorReset(op) ==
    /\ call' = Called(op, "false")
    /\ current_search_idx' = 0
    /\ UNCHANGED <<file_content, current_offset, search_results,
                   search_result_types, codecVars, show_investigate, viewVars>>

\* next_search_result and prev_search_result on an empty hit list.
NoMove(op) ==
    /\ call' = Called(op, "false")
    /\ UNCHANGED <<file_content, current_offset, searchVars, codecVars,
                   show_investigate, viewVars>>

NextSearchResult ==
    IF search_results = <<>> THEN NoMove("next")
    ELSE MoveCursor("next", NextIndex(current_search_idx, Len(search_results)))

PrevSearchResult ==
    IF search_results = <<>> THEN NoMove("prev")
    ELSE MoveCursor("prev", PrevIndex(current_search_idx, Len(search_results)))

(***************************************************************************)
(* run(): the keys that move the current offset.  The loop only reaches    *)
(* its key handlers on a non-empty file: on an empty one the status line's *)
(* current_offset / file_size raises and ends the loop.                    *)
(***************************************************************************)
MoveTo(offset) ==
    /\ file_size > 0
    /\ current_offset' = offset
    /\ call' = Called("nav", "none")
    /\ UNCHANGED <<file_content, searchVars, codecVars, show_investigate, viewVars>>

KeyUp    == MoveTo(Max(0, current_offset - bytes_per_line))

KeyDown  == MoveTo(Min(file_size - 1, current_offset + bytes_per_line))

KeyLeft  == MoveTo(Max(0, current_offset - 1))

KeyRight == MoveTo(Min(file_size - 1, current_offset + 1))

KeyHome  == MoveTo(0)

KeyEnd   == MoveTo(file_size - 1)

\* The offsets the model follows: a session that pages further away from
\* the file than this is not continued.
MaxOffset == 20

KeyPageUp ==
    /\ current_offset - content_height * bytes_per_line <= MaxOffset
    /\ MoveTo(Max(0, current_offset - content_height * bytes_per_line))

KeyPageDown ==
    /\ current_offset + content_height * bytes_per_line >= -MaxOffset
    /\ MoveTo(Min(file_size - 1,
                  current_offset + content_height * bytes_per_line))

(***************************************************************************)
(* run(): the 'j' key.  The targets typed at the prompt are an optional    *)
(* sign and decimal digits, 0x and hex digits, or a number and '%'; any    *)
(* other text makes int() or float() raise, which leaves the offset alone. *)
(***************************************************************************)
JumpTargets ==
    { <<>>,                        \* ""      nothing typed
      <<50>>,                      \* "2"
      <<57>>,                      \* "9"
      <<45, 49>>,                  \* "-1"
      <<48, 120, 50>>,             \* "0x2"
      <<48, 120>>,                 \* "0x"    int('0x', 16) raises ValueError
      <<53, 48, 37>>,              \* "50%"
      <<49, 48, 48, 37>>,          \* "100%"
      <<105, 110, 102, 37>> }      \* "inf%"  int(inf) raises OverflowError

\* int(s, 16) of hex digits.
RECURSIVE HexIntOf(_, _)
HexIntOf(s, acc) ==
    IF s = <<>> THEN acc
    ELSE LET v == acc * 16 + HexValue(Head(s))
         IN  HexIntOf(Tail(s), IF v > IntCap THEN IntCap ELSE v)

\* s is decimal digits after an optional sign.
IsSignedDigits(s) ==
    LET d == IF s # <<>> /\ Head(s) \in {43, 45} THEN Tail(s) ELSE s
    IN  d # <<>> /\ \A i \in 1..Len(d) : d[i] \in 48..57

SignedIntOf(s) ==
    IF Head(s) = 45 THEN -IntOf(Tail(s))
    ELSE IF Head(s) = 43 THEN IntOf(Tail(s))
    ELSE IntOf(s)

\* int(x) of a float: truncation towards zero.
Trunc(num, den) == IF num >= 0 THEN num \div den ELSE -((-num) \div den)

\* The three branches of the target: [ok |-> FALSE] when int() or float()
\* raises, else the offset before clamping.
JumpOffset(jump_str) ==
    IF IsHexQuery(jump_str) THEN
        LET h == SubSeq(jump_str, 3, Len(jump_str))
        IN  IF h # <<>> /\ \A i \in 1..Len(h) : h[i] \in HexDigitChars
            THEN [ok |-> TRUE, offset |-> HexIntOf(h, 0)]
            ELSE [ok |-> FALSE, offset |-> 0]
    ELSE IF jump_str # <<>> /\ jump_str[Len(jump_str)] = 37 THEN
        LET n == SubSeq(jump_str, 1, Len(jump_str) - 1)
        IN  IF IsSignedDigits(n)
            THEN [ok |-> TRUE, offset |-> Trunc(SignedIntOf(n) * file_size, 100)]
            ELSE [ok |-> FALSE, offset |-> 0]
    ELSE IF IsSignedDigits(jump_str)
         THEN [ok |-> TRUE, offset |-> SignedIntOf(jump_str)]
         ELSE [ok |-> FALSE, offset |-> 0]

KeyJump(jump_str) ==
    /\ file_size > 0
    /\ current_offset' =
           IF jump_str # <<>> /\ JumpOffset(jump_str).ok
           THEN Max(0, Min(JumpOffset(jump_str).offset, file_size - 1))
           ELSE current_offset
    /\ call' = Call("jump", jump_str, 0, "none")
    /\ UNCHANGED <<file_content, searchVars, codecVars, show_investigate,
                   viewVars>>

(***************************************************************************)
(* run(): the 'i' key.                                                     *)
(***************************************************************************)

\* min(distances, key=lambda x: x[0])[1]: the 0-based index of the first
\* result at the least distance from offset.
Nearest(results, offset) ==
    LET dist(i) == Abs(results[i] - offset)
        first == CHOOSE i \in 1..Len(results) :
                    /\ \A j \in 1..Len(results) : dist(i) <= dist(j)
                    /\ \A j \in 1..(i - 1) : dist(j) # dist(i)
    IN  first - 1

KeyInvestigate ==
    /\ file_size > 0
    /\ show_investigate' = ~show_investigate
    /\ IF /\ show_investigate'
          /\ search_results # <<>>
          /\ current_offset \notin Range(search_results)
       THEN LET nearest_idx == Nearest(search_results, current_offset)
            IN  /\ current_search_idx' = nearest_idx
                /\ current_offset' = search_results[nearest_idx + 1]
       ELSE UNCHANGED <<current_search_idx, current_offset>>
    /\ call' = Call("investigate", NoPattern, current_offset, "none")
    /\ UNCHANGED <<file_content, search_results, search_result_types,
                   codecVars, viewVars>>

(***************************************************************************)
(* display_printable and format_line.  Text is a sequence of code points.  *)
(***************************************************************************)
\* cp1252's characters for the bytes 0x80..0x9f; -1 where it has none.
Cp1252High ==
    << 8364, -1, 8218, 402, 8222, 8230, 8224, 8225, 710, 8240, 352, 8249,
       338, -1, 381, -1, -1, 8216, 8217, 8220, 8221, 8226, 8211, 8212, 732,
       8482, 353, 8250, 339, -1, 382, 376 >>

\* Codec names the runtime can look up whose decode raises UnicodeError
\* itself, which is neither UnicodeDecodeError nor LookupError, for every
\* input: Python's "undefined" codec.
RaisingCodecs == {"undefined"}

\* bytes([byte]).decode(codec): the code point; -1 when decode raises
\* UnicodeDecodeError or (unknown codec name) LookupError; -2 when it raises
\* UnicodeError.
DecodeByte(byte, codec) ==
    CASE codec \in RaisingCodecs -> -2
      [] codec \notin KnownCodecs -> -1
      [] codec \in {"ascii", "utf-8"} -> IF byte < 128 THEN byte ELSE -1
      [] codec = "latin-1" -> byte
      [] codec = "cp1252" ->
            IF byte \in 128..159 THEN Cp1252High[byte - 127] ELSE byte
      [] OTHER -> -1

\* char in string.printable and char not in '\t\n\r\v\f'
IsShown(char) == char \in 32..126

\* display_printable lets the exception of decode pass when its except
\* clause does not name it.
DisplayPrintableRaises(byte, codec) == DecodeByte(byte, codec) = -2

\* display_printable(char_byte): (character, is_error), when it returns.
DisplayPrintable(byte, codec) ==
    LET char == DecodeByte(byte, codec)
    IN  IF char = -1 THEN [char |-> 63, is_error |-> TRUE]
        ELSE IF IsShown(char) THEN [char |-> char, is_error |-> FALSE]
        ELSE [char |-> 46, is_error |-> FALSE]

\* One digit of format 'x'.
HexDigit(v) == IF v < 10 THEN 48 + v ELSE 87 + v

\* f"{v:0{width}x}" for 0 <= v < 16^width.
RECURSIVE HexText(_, _)
HexText(v, width) ==
    IF width = 0 THEN <<>>
    ELSE HexText(v \div 16, width - 1) \o <<HexDigit(v % 16)>>

\* str(v) for v >= 0.
RECURSIVE DecimalText(_)
DecimalText(v) ==
    IF v < 10 THEN <<48 + v>> ELSE DecimalText(v \div 10) \o <<48 + (v % 10)>>

Spaces(n) == [i \in 1..n |-> 32]

\* s.ljust(width)
LJust(s, width) == IF Len(s) >= width THEN s ELSE s \o Spaces(width - Len(s))

\* The window of a format_line that adds no zero bytes before the start of
\* the file.
DisplayDataUnpadded(offset, data) ==
    LET shift_start == Max(0, offset - display_shift)
        shift_end == Min(file_size, shift_start + bytes_per_line)
    IN  IF display_shift # 0
        THEN SubSeq(file_content, shift_start + 1, shift_end)
        ELSE data

\* display_data: the bytes format_line shows for the line at offset.
DisplayData(offset, data) ==
    IF display_shift # 0 THEN
        LET shift_start == Max(0, offset - display_shift)
            shift_end == Min(file_size, shift_start + bytes_per_line)
            shifted == SubSeq(file_content, shift_start + 1, shift_end)
        IN  IF offset < display_shift
            THEN LET padded == [i \in 1..(display_shift - offset) |-> 0]
                               \o shifted
                 IN  SubSeq(padded, 1, Min(Len(padded), bytes_per_line))
            ELSE shifted
    ELSE data

\* hex_section with no padding of a short line.
HexSectionUnpadded(display_data) ==
    Flatten([i \in 1..Len(display_data) |->
                HexText(display_data[i], 2) \o <<32>>
                \o (IF i - 1 = 7 THEN <<32>> ELSE <<>>)])

HexSection(display_data) ==
    LJust(Flatten([i \in 1..Len(display_data) |->
                      HexText(display_data[i], 2) \o <<32>>
                      \o (IF i - 1 = 7 THEN <<32>> ELSE <<>>)]),
          3 * bytes_per_line + 2)

\* char_section: the glyphs between two box-drawing bars (U+2502).
CharSection(display_data, codec) ==
    <<9474>>
    \o [i \in 1..Len(display_data) |->
           DisplayPrintable(display_data[i], codec).char]
    \o <<9474>>

\* error_positions: the 0-based columns display_printable flags, in the
\* order of the loop.
ErrorPositions(display_data, codec) ==
    LET Flagged(i) == DisplayPrintable(display_data[i + 1], codec).is_error
    IN  SelectSeq([i \in 1..Len(display_data) |-> i - 1], Flagged)

\* The bytes in the order int.from_bytes weighs them, lowest first, whatever
\* the byte order asked for.
LowestFirstAlwaysLittle(bytes, byteorder) == bytes

\* The bytes in the order int.from_bytes weighs them, lowest first.
LowestFirst(bytes, byteorder) ==
    IF byteorder = "little" THEN bytes ELSE Reverse(bytes)

\* str(int.from_bytes(two bytes, byteorder))
Int16Text(bytes, byteorder) ==
    LET b == LowestFirst(bytes, byteorder)
    IN  DecimalText(b[1] + 256 * b[2])

\* str(int.from_bytes(four bytes, byteorder)): the value is
\* hi * 65536 + lo = (hi * 655) * 100 + (hi * 36 + lo), written out in
\* hundreds and units so that no intermediate value needs 32 bits.
Int32Text(bytes, byteorder) ==
    LET b == LowestFirst(bytes, byteorder)
        lo == b[1] + 256 * b[2]
        hi == b[3] + 256 * b[4]
        hundreds == hi * 655 + ((hi * 36 + lo) \div 100)
        units == (hi * 36 + lo) % 100
    IN  IF hundreds = 0 THEN DecimalText(units)
        ELSE DecimalText(hundreds) \o <<48 + (units \div 10), 48 + (units % 10)>>

\* The interpreted values appended to a line: none, or the two integers as
\* printed and the float as the four bytes struct.unpack reads it from.
Values(display_data) ==
    IF show_values /\ Len(display_data) >= 4
    THEN << [int16 |-> Int16Text(SubSeq(display_data, 1, 2), endian),
             int32 |-> Int32Text(SubSeq(display_data, 1, 4), endian),
             float |-> LowestFirst(SubSeq(display_data, 1, 4), endian)] >>
    ELSE << >>

\* format_line raises what display_printable raises for one of its bytes.
FormatLineRaises(offset, data) ==
    LET display_data == DisplayData(offset, data)
    IN  \E i \in 1..Len(display_data) :
            DisplayPrintableRaises(display_data[i], encoding)

\* format_line(offset, data), when it returns: result is the address, the
\* hex section, a blank and the character section; the values follow it on
\* the screen.
FormatLine(offset, data) ==
    LET display_data == DisplayData(offset, data)
    IN  [result |-> HexText(offset, 8) \o <<58, 32>>
                    \o HexSection(display_data)
                    \o <<32>> \o CharSection(display_data, encoding),
         error_positions |-> ErrorPositions(display_data, encoding),
         values |-> Values(display_data)]

\* run() is in its loop: an exception that reaches the handler around the
\* loop body is reported and ends the loop.
Running == call.ret # "UnicodeError"

\* A pass whose format_line keeps the offset it formats as the current one.
RenderMovingToLine(i) ==
    LET line_offset == current_offset - (current_offset % bytes_per_line)
        offset == line_offset + i * bytes_per_line
        end_offset == Min(offset + bytes_per_line, file_size)
        data == SubSeq(file_content, offset + 1, end_offset)
    IN  /\ Running
        /\ file_size > 0
        /\ offset < file_size
        /\ current_offset' = offset
        /\ call' = IF FormatLineRaises(offset, data)
                   THEN Call("format_line", NoPattern, offset, "UnicodeError")
                   ELSE [op |-> "format_line", pattern |-> NoPattern,
                         from |-> offset, ret |-> "line",
                         line |-> FormatLine(offset, data)]
        /\ UNCHANGED <<file_content, searchVars, codecVars,
                       show_investigate, viewVars>>

\* run(): one pass of the loop "for i in range(content_height)" that draws
\* the screen, which formats the line at line_offset + 16 * i.
Render(i) ==
    LET line_offset == current_offset - (current_offset % bytes_per_line)
        offset == line_offset + i * bytes_per_line
        end_offset == Min(offset + bytes_per_line, file_size)
        data == SubSeq(file_content, offset + 1, end_offset)
    IN  /\ Running
        /\ file_size > 0
        /\ offset < file_size
        /\ call' = IF FormatLineRaises(offset, data)
                   THEN Call("format_line", NoPattern, offset, "UnicodeError")
                   ELSE [op |-> "format_line", pattern |-> NoPattern,
                         from |-> offset, ret |-> "line",
                         line |-> FormatLine(offset, data)]
        /\ UNCHANGED <<file_content, current_offset, searchVars, codecVars,
                       show_investigate, viewVars>>

(***************************************************************************)
(* run(): the keys that change how lines are shown.                        *)
(***************************************************************************)
\* The largest display shift the model follows.
MaxShift == 6

SetView(shift, byteorder, values) ==
    /\ Running
    /\ file_size > 0
    /\ display_shift' = shift
    /\ endian' = byteorder
    /\ show_values' = values
    /\ call' = Called("view", "none")
    /\ UNCHANGED <<file_content, current_offset, searchVars, codecVars,
                   show_investigate, content_height>>

KeyShiftLeft1 == SetView(Max(0, display_shift - 1), endian, show_values)

KeyShiftRight1 ==
    /\ display_shift + 1 <= MaxShift
    /\ SetView(display_shift + 1, endian, show_values)

KeyShiftLeft4 == SetView(Max(0, display_shift - 4), endian, show_values)

KeyShiftRight4 ==
    /\ display_shift + 4 <= MaxShift
    /\ SetView(display_shift + 4, endian, show_values)

KeyShiftReset == SetView(0, endian, show_values)

KeyLittleEndian == SetView(display_shift, "little", show_values)

KeyBigEndian == SetView(display_shift, "big", show_values)

KeyValues == SetView(display_shift, endian, ~show_values)

(***************************************************************************)
(* The codec registry: cycle_encoding and load_custom_encodings.           *)
(***************************************************************************)
\* An index that stops at the last entry instead of wrapping.
CycleIndexStuck(idx, count) == Min(idx + 1, count - 1)

CycleIndex(idx, count) == (idx + 1) % count

CycleEncoding ==
    LET idx == CycleIndex(encoding_idx, Len(encodings))
    IN  /\ encoding_idx' = idx
        /\ encoding' = encodings[idx + 1]
        /\ call' = Called("cycle", encodings[idx + 1])
        /\ UNCHANGED <<file_content, current_offset, searchVars, encodings,
                       show_investigate, viewVars>>

\* The entries of a configuration's "encodings" list: a bare string, or an
\* object with a name whose "module" key is absent, importable or not.
MaxConfigLen == 1

ConfigNames == {"ascii", "bogus"}

ConfigEntries ==
    [kind : {"str"}, name : ConfigNames, module : {"absent"}]
    \cup [kind : {"dict"}, name : ConfigNames,
          module : {"absent", "importable", "unimportable"}]

Configs == UNION {[1..n -> ConfigEntries] : n \in 0..MaxConfigLen}

AppendNew(encs, name) ==
    IF name \in Range(encs) THEN encs ELSE Append(encs, name)

LoadEntry(encs, enc) ==
    IF enc.kind = "str" THEN AppendNew(encs, enc.name)
    ELSE IF enc.module = "importable" THEN AppendNew(encs, enc.name)
    ELSE encs

RECURSIVE LoadEntries(_, _)
LoadEntries(encs, config) ==
    IF config = <<>> THEN encs
    ELSE LoadEntries(LoadEntry(encs, Head(config)), Tail(config))

\* main() loads the registry once the viewer is built and before run():
\* it does not call load_custom_encodings once the session has started.
BeforeRun == call.op \in {"init", "load"}

\* The entries a configuration can hold, numbered: the record of a load
\* keeps its configuration as the numbers of its entries.
EntryNames == <<"ascii", "bogus", "dummy", "undefined">>

EntryShapes ==
    << [kind |-> "str", module |-> "absent"],
       [kind |-> "dict", module |-> "absent"],
       [kind |-> "dict", module |-> "importable"],
       [kind |-> "dict", module |-> "unimportable"] >>

EntryOf(code) ==
    [kind   |-> EntryShapes[(code % 4) + 1].kind,
     name   |-> EntryNames[(code \div 4) + 1],
     module |-> EntryShapes[(code % 4) + 1].module]

CodeOf(enc) ==
    CHOOSE code \in 0..(4 * Len(EntryNames) - 1) : EntryOf(code) = enc

\* load_custom_encodings on a configuration file that exists and parses.
LoadCustomEncodings(config) ==
    /\ encodings' = LoadEntries(encodings, config)
    /\ call' = Call("load", [i \in 1..Len(config) |-> CodeOf(config[i])], 0,
                    "true")
    /\ UNCHANGED <<file_content, current_offset, searchVars, encoding_idx,
                   encoding, show_investigate, viewVars>>

\* load_custom_encodings when no configuration file is found.
LoadNoConfig ==
    /\ call' = Called("load", "false")
    /\ UNCHANGED <<file_content, current_offset, searchVars, codecVars,
                   show_investigate, viewVars>>

(***************************************************************************)
(* Spec: a viewing session under the codec __init__ selects (ascii).       *)
(***************************************************************************)
Next ==
    \/ \E pattern \in Queries : Search(pattern)
    \/ NextSearchResult
    \/ PrevSearchResult
    \/ KeyUp
    \/ KeyDown
    \/ KeyLeft
    \/ KeyRight
    \/ KeyHome
    \/ KeyEnd
    \/ KeyInvestigate

Spec == Init /\ [][Next]_vars

(***************************************************************************)
(* SpecNav: every command that moves the current offset, in terminals of   *)
(* any height.                                                             *)
(***************************************************************************)
\* Terminal heights: three rows leave run() a content_height of -1.
NavRows == {3, TerminalRows}

\* The files of the sessions followed: those of up to MaxNavFileLen bytes.
MaxNavFileLen == 2

NavFiles == {f \in Files : Len(f) <= MaxNavFileLen}

NavQueries == { <<48>>, <<97>>, <<48, 120>> }     \* "0", "a", "0x"

NextNav ==
    \/ \E pattern \in NavQueries : file_size > 0 /\ Search(pattern)
    \/ file_size > 0 /\ NextSearchResult
    \/ file_size > 0 /\ PrevSearchResult
    \/ KeyUp
    \/ KeyDown
    \/ KeyLeft
    \/ KeyRight
    \/ KeyPageUp
    \/ KeyPageDown
    \/ KeyHome
    \/ KeyEnd
    \/ \E jump_str \in JumpTargets : KeyJump(jump_str)
    \/ KeyInvestigate

SpecNav == InitOn(NavFiles, NavRows) /\ [][NextNav]_vars

(***************************************************************************)
(* SpecView: what the screen shows of a file under every display shift,    *)
(* byte order, value toggle and codec.                                     *)
(***************************************************************************)
MaxViewLen == 20

\* Twenty bytes: 00 01 02 03, then letters, controls, blanks, and bytes
\* that ascii, utf-8 or cp1252 cannot decode.
ViewSample ==
    << 0, 1, 2, 3, 65, 126, 127, 32, 9, 10,
       128, 129, 160, 233, 255, 255, 48, 255, 0, 157 >>

ViewFiles ==
    { [i \in 1..n |-> ViewSample[((i - 1) % Len(ViewSample)) + 1]] :
          n \in 1..MaxViewLen }

\* Configurations of one bare name: one the runtime cannot look up, and
\* one whose codec refuses every input.
ViewConfigs ==
    { <<[kind |-> "str", name |-> n, module |-> "absent"]>> :
          n \in {"bogus"} \cup RaisingCodecs }

NextView ==
    \/ \E i \in 0..(content_height - 1) : Render(i)
    \/ KeyShiftLeft1
    \/ KeyShiftRight1
    \/ KeyShiftLeft4
    \/ KeyShiftRight4
    \/ KeyShiftReset
    \/ KeyLittleEndian
    \/ KeyBigEndian
    \/ KeyValues
    \/ Running /\ CycleEncoding
    \/ \E config \in ViewConfigs : BeforeRun /\ LoadCustomEncodings(config)

SpecView == InitOn(ViewFiles, {TerminalRows}) /\ [][NextView]_vars

(***************************************************************************)
(* SpecRender: the screen drawn between searches, moves of the cursor and  *)
(* changes of the view, on the two longest files of SpecView.              *)
(***************************************************************************)
RenderFiles == {f \in ViewFiles : Len(f) >= MaxViewLen - 1}

RenderQueries == { <<0>>, <<48>>, <<97>> }        \* NUL, "0", "a"

NextRender ==
    \/ \E i \in 0..(content_height - 1) : Render(i)
    \/ \E pattern \in RenderQueries : Search(pattern)
    \/ NextSearchResult
    \/ PrevSearchResult
    \/ KeyInvestigate
    \/ KeyShiftRight4
    \/ KeyShiftReset
    \/ KeyLittleEndian
    \/ KeyBigEndian
    \/ KeyValues
    \/ CycleEncoding

SpecRender == InitOn(RenderFiles, {TerminalRows}) /\ [][NextRender]_vars

(***************************************************************************)
(* SpecScan: the methods called on the object with any from_offset.  One   *)
(* call of _append_search_results runs pass by pass on a fresh viewer;     *)
(* once it has returned, search is called.  The loop is a sequential       *)
(* program: a pass that can run does run.                                  *)
(***************************************************************************)
\* The largest from_offset of a call: beyond the end of every file.
MaxFrom == 5

\* The patterns of a scan: empty, one byte, two bytes, and one longer than
\* every file.
ScanPatterns ==
    { <<>>, <<0>>, <<48>>, <<48, 48>>, <<0, 48>>,
      [i \in 1..(MaxFileLen + 1) |-> 48] }

ScanQueries == { <<>>, <<48>>, <<48, 120>>, <<48, 120, 51, 48>> }

InitScan ==
    /\ file_content \in Files
    /\ current_offset = 0
    /\ search_results = <<>>
    /\ search_result_types = <<>>
    /\ current_search_idx = -1
    /\ encodings = BuiltinEncodings
    /\ encoding_idx = 0
    /\ encoding = BuiltinEncodings[1]
    /\ show_investigate = FALSE
    /\ display_shift = 0
    /\ endian = "little"
    /\ show_values = TRUE
    /\ content_height = TerminalRows - 4
    /\ \E pattern \in ScanPatterns : \E from_offset \in 0..MaxFrom :
           call = Call("scan", pattern, from_offset, "scanning")

NextScan ==
    \/ ScanStep
    \/ \E pattern \in ScanQueries : \E from_offset \in 0..MaxFrom :
           call.ret # "scanning" /\ SearchFrom(pattern, from_offset)

SpecScan == InitScan /\ [][NextScan]_vars /\ WF_vars(ScanStep)

(***************************************************************************)
(* SpecCodec: searching under every codec of the registry, with custom     *)
(* encodings loaded at any time.                                           *)
(***************************************************************************)
NextCodec ==
    \/ \E pattern \in Queries : Search(pattern)
    \/ CycleEncoding
    \/ \E config \in Configs : BeforeRun /\ LoadCustomEncodings(config)
    \/ BeforeRun /\ LoadNoConfig

SpecCodec == Init /\ [][NextCodec]_vars

(***************************************************************************)
(* SpecRegistry: the registry used as an object, cycle_encoding and        *)
(* load_custom_encodings called in any order and any number of times.      *)
(***************************************************************************)
MaxRegistryConfigLen == 2

RegistryNames == {"ascii", "bogus", "dummy"}

RegistryEntries ==
    [kind : {"str"}, name : RegistryNames, module : {"absent"}]
    \cup [kind : {"dict"}, name : RegistryNames,
          module : {"absent", "importable", "unimportable"}]

RegistryConfigs ==
    UNION {[1..n -> RegistryEntries] : n \in 0..MaxRegistryConfigLen}

InitRegistry == InitOn({<<>>}, {TerminalRows})

NextRegistry ==
    \/ CycleEncoding
    \/ \E config \in RegistryConfigs : LoadCustomEncodings(config)
    \/ LoadNoConfig

SpecRegistry == InitRegistry /\ [][NextRegistry]_vars

(***************************************************************************)
(* Properties of the search engine.                                        *)
(***************************************************************************)
\* pattern occurs in the file at offset h.
Occurs(pattern, h) ==
    /\ h >= 0
    /\ h + Len(pattern) <= file_size
    /\ SubSeq(file_content, h + 1, h + Len(pattern)) = pattern

\* The positions of the hit list that carry a tag.
TagIndices(tag) ==
    {i \in 1..Len(search_result_types) : search_result_types[i] = tag}

\* The last operation was a search that returned; its candidates.
Searched == call.op = "search" /\ call.ret # "raised"

LastCandidates == Candidates(call.pattern, encoding)

\* C1: the hits search appends for a non-empty candidate p are exactly the
\* offsets h >= from_offset at which p occurs in the file, each once:
\* overlapping occurrences are all reported, none below from_offset is.
C1_HitsAreTheOccurrences ==
    Searched =>
        \A k \in 1..Len(LastCandidates) :
            LET cand == LastCandidates[k]
                expected == {h \in call.from..file_size : Occurs(cand.bytes, h)}
            IN  cand.bytes # <<>> =>
                    /\ {search_results[i] : i \in TagIndices(cand.tag)} = expected
                    /\ Cardinality(TagIndices(cand.tag)) = Cardinality(expected)

\* "00" searched from offset 1 of the file "0000": the occurrences at 1 and
\* 2 overlap and are both hits, the one at 0 is not.
C1_Witness ==
    /\ Searched
    /\ file_content = <<48, 48, 48, 48>>
    /\ call.pattern = <<48, 48>>
    /\ call.from = 1
    /\ search_results = <<1, 2>>
    /\ search_result_types = <<"ascii", "ascii">>

TagOrder ==
    << "ascii", "int16le", "int16be", "int32le", "int32be",
       "float32le", "float32be" >>

\* The place of a tag in the order of the blocks; a hex search has one block.
TagRank(tag) ==
    IF tag = "hex" THEN 1 ELSE CHOOSE r \in 1..Len(TagOrder) : TagOrder[r] = tag

\* C2: after a search the hit list is a concatenation of per-candidate
\* blocks in the order ascii, int16le, int16be, int32le, int32be,
\* float32le, float32be, each block strictly ascending, each hit paired with
\* its own tag, and an offset matched by several candidates kept once per
\* candidate.
C2_BlocksInCandidateOrder ==
    call.op = "search" =>
        /\ Len(search_results) = Len(search_result_types)
        /\ \A i \in 1..Len(search_results) :
               search_result_types[i] \in Range(TagOrder) \cup {"hex"}
        /\ \A i \in 1..(Len(search_results) - 1) :
               \/ TagRank(search_result_types[i]) < TagRank(search_result_types[i + 1])
               \/ /\ search_result_types[i] = search_result_types[i + 1]
                  /\ search_results[i] < search_results[i + 1]
        /\ Searched =>
               \A k \in 1..Len(LastCandidates) :
                   \A h \in call.from..(file_size - 1) :
                       Occurs(LastCandidates[k].bytes, h) =>
                           \E i \in TagIndices(LastCandidates[k].tag) :
                               search_results[i] = h

\* "0" searched in the file "0" NUL NUL NUL: one ascii hit, then the 16-bit
\* zero at offsets 1 and 2 once as int16le and once more as int16be, so the
\* list is not ascending as a whole.
C2_Witness ==
    /\ Searched
    /\ call.pattern = <<48>>
    /\ search_results = <<0, 1, 2, 1, 2>>
    /\ search_result_types =
           <<"ascii", "int16le", "int16le", "int16be", "int16be">>

C4_NextPrevWrap ==
    [][(call'.op \in {"next", "prev"} /\ search_results # <<>>) =>
          LET n == Len(search_results)
          IN  /\ call'.ret = "true"
              /\ call'.op = "next" =>
                    current_search_idx' =
                        IF current_search_idx = n - 1 THEN 0
                        ELSE current_search_idx + 1
              /\ call'.op = "prev" =>
                    current_search_idx' =
                        IF current_search_idx = 0 THEN n - 1
                        ELSE current_search_idx - 1
              /\ current_search_idx' \in 0..(n - 1)
              /\ current_offset' = search_results[current_search_idx' + 1]
              /\ UNCHANGED <<search_results, search_result_types>>
      ]_vars

\* next() has just wrapped from the last of three hits to the first.
C4_Witness ==
    /\ call.op = "next"
    /\ call.ret = "true"
    /\ Len(search_results) = 3
    /\ current_search_idx = 0
    /\ current_offset = search_results[1]

\* C5: on an empty hit list next() and prev() return false and change
\* nothing: the cursor stays at -1, current_offset and every other field of
\* the viewer stay as they were.
C5_NextPrevOnEmptyList ==
    [][(call'.op \in {"next", "prev"} /\ search_results = <<>>) =>
          /\ call'.ret = "false"
          /\ current_search_idx = -1
          /\ UNCHANGED <<file_content, current_offset, searchVars, codecVars,
                         show_investigate, viewVars>>
      ]_vars

\* prev() has returned false on an empty list, away from offset 0.
C5_Witness ==
    /\ call.op = "prev"
    /\ call.ret = "false"
    /\ search_results = <<>>
    /\ current_search_idx = -1
    /\ current_offset > 0

(***************************************************************************)
(* Decimal strings as numbers of any size: the value a query denotes,      *)
(* independent of how search converts it.                                  *)
(***************************************************************************)
AsciiDigits(s) == s # <<>> /\ \A i \in 1..Len(s) : s[i] \in 48..57

\* The decimal string s divided by 256: quotient (a decimal string) and
\* remainder, by long division from the running remainder rem.
RECURSIVE DivDigits(_, _, _)
DivDigits(s, rem, quot) ==
    IF s = <<>> THEN [quot |-> quot, rem |-> rem]
    ELSE LET n == rem * 10 + (Head(s) - 48)
         IN  DivDigits(Tail(s), n % 256, Append(quot, 48 + (n \div 256)))

\* The n low bytes of the value, least significant first.
RECURSIVE DigitsToBytesLE(_, _)
DigitsToBytesLE(s, n) ==
    IF n = 0 THEN <<>>
    ELSE LET d == DivDigits(s, 0, <<>>)
         IN  <<d.rem>> \o DigitsToBytesLE(d.quot, n - 1)

RECURSIVE DigitsShifted(_, _)
DigitsShifted(s, n) ==
    IF n = 0 THEN s ELSE DigitsShifted(DivDigits(s, 0, <<>>).quot, n - 1)

\* The value is at most 2^32 - 1.
FitsU32(s) == \A i \in 1..Len(DigitsShifted(s, 4)) : DigitsShifted(s, 4)[i] = 48

\* Every occurrence of pattern from the last call's from_offset on is a hit
\* with this tag.
ReportedAs(pattern, tag) ==
    \A h \in call.from..(file_size - 1) :
        Occurs(pattern, h) => \E i \in TagIndices(tag) : search_results[i] = h

\* C6: search('') scans nothing: it leaves the hit list empty, the cursor at
\* -1, and returns false.
C6_EmptyQueryFindsNothing ==
    (call.op = "search" /\ call.pattern = <<>>) =>
        /\ search_results = <<>>
        /\ search_result_types = <<>>
        /\ current_search_idx = -1
        /\ call.ret = "false"

\* C7: a digits-only query whose value is at most 2^32 - 1, also one above
\* 65535, is searched as its 4-byte little-endian and big-endian encodings,
\* whose occurrences are hits tagged int32le and int32be.
C7_Int32SearchedUpToU32 ==
    (Searched /\ AsciiDigits(call.pattern) /\ FitsU32(call.pattern)) =>
        /\ ReportedAs(DigitsToBytesLE(call.pattern, 4), "int32le")
        /\ ReportedAs(Reverse(DigitsToBytesLE(call.pattern, 4)), "int32be")

\* C8: a digits-only query whose value exceeds 2^32 - 1 does not make search
\* fail: only the text encoding is scanned, every hit is tagged ascii, and
\* the result and the cursor follow the usual rule.
C8_OverflowNarrowsToAscii ==
    (call.op = "search" /\ AsciiDigits(call.pattern) /\ ~FitsU32(call.pattern)) =>
        /\ call.ret \in {"true", "false"}
        /\ \A i \in 1..Len(search_result_types) : search_result_types[i] = "ascii"
        /\ \A i \in 1..Len(search_results) :
               Occurs(Encode(call.pattern, encoding), search_results[i])
        /\ call.ret = "true" <=> search_results # <<>>
        /\ current_search_idx = (IF search_results # <<>> THEN 0 ELSE -1)

\* C9: search never propagates a failure: whatever the query and the codec
\* selected from the registry, it returns true or false.
C9_SearchNeverRaises ==
    call.op = "search" => call.ret \in {"true", "false"}

(***************************************************************************)
(* Properties of the hex and the numeric branch of search.                 *)
(***************************************************************************)
\* The query starts with "0x" or "0X".
StartsWith0x(s) == Len(s) >= 2 /\ s[1] = 48 /\ s[2] \in {120, 88}

HexLower == <<48, 49, 50, 51, 52, 53, 54, 55, 56, 57, 97, 98, 99, 100, 101, 102>>
HexUpper == <<48, 49, 50, 51, 52, 53, 54, 55, 56, 57, 65, 66, 67, 68, 69, 70>>

IsHexChar(c) == \E v \in 1..16 : c \in {HexLower[v], HexUpper[v]}

\* The value 0..15 of a hex digit.
NibbleOf(c) == (CHOOSE v \in 1..16 : c \in {HexLower[v], HexUpper[v]}) - 1

\* Everything after the prefix is a hex digit.
HexDigitsOnly(s) == \A i \in 3..Len(s) : IsHexChar(s[i])

\* The bytes a hex literal denotes: the digits after the prefix, with one
\* '0' in front of an odd number of them, two digits to a byte.
HexLiteralBytes(s) ==
    LET h == SubSeq(s, 3, Len(s))
        d == IF Len(h) % 2 = 1 THEN <<48>> \o h ELSE h
    IN  [i \in 1..(Len(d) \div 2) |->
            16 * NibbleOf(d[2 * i - 1]) + NibbleOf(d[2 * i])]

\* C11: a query that starts with 0x or 0X is searched as a hex literal and
\* as nothing else: every hit is tagged hex, and when the rest is hex digits
\* the search returns and its hits are the occurrences, from from_offset on
\* and in ascending order, of the bytes the padded digits denote.
C11_HexLiteralSearch ==
    (call.op = "search" /\ StartsWith0x(call.pattern)) =>
        /\ \A i \in 1..Len(search_result_types) : search_result_types[i] = "hex"
        /\ Len(search_results) = Len(search_result_types)
        /\ HexDigitsOnly(call.pattern) =>
              \A bytes \in {HexLiteralBytes(call.pattern)} :
                  /\ call.ret \in {"true", "false"}
                  /\ \A i \in 1..Len(search_results) :
                         /\ search_results[i] >= call.from
                         /\ Occurs(bytes, search_results[i])
                  /\ \A i \in 1..(Len(search_results) - 1) :
                         search_results[i] < search_results[i + 1]
                  /\ bytes # <<>> => ReportedAs(bytes, "hex")

\* "0x030" searched from offset 1 of the file NUL "0" NUL "0": the three
\* digits are the bytes 00 30, found at offset 2 and not reported at 0.
C11_Witness ==
    /\ call.op = "search"
    /\ call.pattern = <<48, 120, 48, 51, 48>>
    /\ call.from = 1
    /\ file_content = <<0, 48, 0, 48>>
    /\ search_results = <<2>>
    /\ search_result_types = <<"hex">>
    /\ call.ret = "true"

\* C12: a 0x query with a character after the prefix that is no hex digit is
\* no match: search returns false, the hit list is empty, the cursor is -1
\* and current_offset is where it was.
C12_BadHexIsNoMatch ==
    (call.op = "search" /\ StartsWith0x(call.pattern)
                        /\ ~HexDigitsOnly(call.pattern)) =>
        /\ call.ret = "false"
        /\ search_results = <<>>
        /\ search_result_types = <<>>
        /\ current_search_idx = -1
        /\ current_offset = call.from

\* The value is at most 65535.
FitsU16(s) == \A i \in 1..Len(DigitsShifted(s, 2)) : DigitsShifted(s, 2)[i] = 48

\* C13: for a digits-only query of value v <= 65535 search scans, after the
\* text of the digits, int16le = (v mod 256, v div 256), int16be = (v div
\* 256, v mod 256), int32le = (v mod 256, v div 256, 0, 0), int32be = (0, 0,
\* v div 256, v mod 256) and then the two float32 encodings, in this order,
\* and reports their occurrences under these tags; "65" gives 41 00, 00 41,
\* 41 00 00 00 and 00 00 00 41.
C13_IntegerCandidates ==
    /\ \A c \in {Candidates(<<54, 53>>, "ascii")} :
           /\ Len(c) = 7
           /\ c[1] = [bytes |-> <<54, 53>>, tag |-> "ascii"]
           /\ c[2] = [bytes |-> <<65, 0>>, tag |-> "int16le"]
           /\ c[3] = [bytes |-> <<0, 65>>, tag |-> "int16be"]
           /\ c[4] = [bytes |-> <<65, 0, 0, 0>>, tag |-> "int32le"]
           /\ c[5] = [bytes |-> <<0, 0, 0, 65>>, tag |-> "int32be"]
    /\ (Searched /\ AsciiDigits(call.pattern) /\ FitsU16(call.pattern)) =>
           \A c \in {LastCandidates} :
               \A le \in {DigitsToBytesLE(call.pattern, 2)} :
                   /\ Len(c) = 7
                   /\ [k \in 1..7 |-> c[k].tag] = TagOrder
                   /\ c[1].bytes = call.pattern
                   /\ c[2].bytes = le
                   /\ c[3].bytes = Reverse(le)
                   /\ c[4].bytes = le \o <<0, 0>>
                   /\ c[5].bytes = <<0, 0>> \o Reverse(le)
                   /\ Len(c[6].bytes) = 4
                   /\ c[7].bytes = Reverse(c[6].bytes)
                   /\ ReportedAs(le, "int16le")
                   /\ ReportedAs(Reverse(le), "int16be")
                   /\ ReportedAs(le \o <<0, 0>>, "int32le")
                   /\ ReportedAs(<<0, 0>> \o Reverse(le), "int32be")

\* "48" (0x0030) in the file NUL NUL "0" NUL: 30 00 is at offset 2 and 00 30
\* at offset 1, reported in the order of the candidates.
C13_Witness ==
    /\ Searched
    /\ call.pattern = <<52, 56>>
    /\ file_content = <<0, 0, 48, 0>>
    /\ search_results = <<2, 1>>
    /\ search_result_types = <<"int16le", "int16be">>

(***************************************************************************)
(* Properties of the 'i' key.                                              *)
(***************************************************************************)
\* idx is the lowest index among the hits nearest to offset.
IsNearest(idx, offset) ==
    /\ idx \in 0..(Len(search_results) - 1)
    /\ \A j \in 1..Len(search_results) :
           Abs(search_results[idx + 1] - offset) <= Abs(search_results[j] - offset)
    /\ \A j \in 1..idx :
           Abs(search_results[j] - offset) > Abs(search_results[idx + 1] - offset)

\* Investigate mode has just been switched on with a non-empty hit list.
InvestigateOn ==
    call.op = "investigate" /\ show_investigate /\ search_results # <<>>

\* C10 as claimed: switching investigate mode on with a non-empty hit list
\* always puts the cursor on the lowest-indexed hit nearest to the current
\* offset, and current_offset on that hit.
C10_AlwaysNearest ==
    InvestigateOn =>
        /\ IsNearest(current_search_idx, call.from)
        /\ current_offset = search_results[current_search_idx + 1]

(***************************************************************************)
(* Properties of the codec registry.                                       *)
(***************************************************************************)
\* An entry supplies its name when it is a bare string, or an object whose
\* module is omitted or importable.
Supplies(enc) == enc.kind = "str" \/ enc.module \in {"absent", "importable"}

\* encs followed by the names config supplies that are not in it yet, each
\* once, in the order they first appear.
RECURSIVE WithSupplied(_, _)
WithSupplied(encs, config) ==
    IF config = <<>> THEN encs
    ELSE WithSupplied(
             IF Supplies(Head(config)) /\ \A i \in 1..Len(encs) : encs[i] # Head(config).name
             THEN encs \o <<Head(config).name>>
             ELSE encs,
             Tail(config))

\* C19: after load_custom_encodings, also a repeated one, the registry is the
\* eight built-in names in their order followed by the distinct names not
\* yet present that the configuration supplies, as a bare string or as an
\* object with the module omitted or importable, in first-appearance order:
\* no name is there twice, no entry is removed or moved.
C19_RegistryAfterLoad ==
    [][(call'.op = "load" /\ call'.ret = "true") =>
          /\ encodings' = WithSupplied(encodings,
                 [i \in 1..Len(call'.pattern) |-> EntryOf(call'.pattern[i])])
          /\ SubSeq(encodings', 1, Len(BuiltinEncodings)) = BuiltinEncodings
          /\ \A i, j \in 1..Len(encodings') :
                 encodings'[i] = encodings'[j] => i = j
      ]_vars

\* count applications of the index step, from i.
RECURSIVE CycleTimes(_, _, _)
CycleTimes(i, count, n) ==
    IF n = 0 THEN i ELSE CycleTimes(CycleIndex(i, count), count, n - 1)

\* C20: cycle_encoding moves the index from i to (i + 1) mod count, so that
\* count cycles lead back to where they started; and after every cycle and
\* every load the active encoding is encodings[encoding_idx], with
\* 0 <= encoding_idx < count.
C20_CycleKeepsIndexAndName ==
    [][/\ encoding_idx' \in 0..(Len(encodings') - 1)
       /\ encoding' = encodings'[encoding_idx' + 1]
       /\ call'.op = "cycle" =>
              \A count \in {Len(encodings)} :
                  /\ encodings' = encodings
                  /\ encoding_idx' =
                         (IF encoding_idx = count - 1 THEN 0 ELSE encoding_idx + 1)
                  /\ call'.ret = encoding'
                  /\ \A i \in 0..(count - 1) : CycleTimes(i, count, count) = i
      ]_vars

\* A cycle has just wrapped from the last entry of a registry extended by
\* two custom names back to the first.
C20_Witness ==
    /\ call.op = "cycle"
    /\ Len(encodings) = Len(BuiltinEncodings) + 2
    /\ encoding_idx = 0
    /\ encoding = BuiltinEncodings[1]

(***************************************************************************)
(* Properties of navigation.                                               *)
(***************************************************************************)
\* C18: on a non-empty file, whatever commands were given (arrows, page
\* up/down, home/end, jump, search, next/prev, investigate), the current
\* offset is in 0 .. file_size - 1; a jump target outside is clamped.
C18_OffsetInFile ==
    file_size > 0 => current_offset \in 0..(file_size - 1)

(***************************************************************************)
(* Properties of format_line, read back from the text of the line.         *)
(***************************************************************************)
\* format_line has just returned a line.
LineShown == call.op = "format_line" /\ call.ret = "line"

\* The line the last call formatted, and the offset it was formatted for.
ShownLine == call.line.result

ShownOffset == call.from

\* The text is 8 address digits, ": ", the 50 columns of the hex field, a
\* blank, a delimiter, one glyph per byte and a delimiter.
ShownCount == Len(ShownLine) - 63

\* Where the hex group of column i (0-based) starts in the text.
GroupAt(i) == 11 + 3 * i + (IF i >= 8 THEN 1 ELSE 0)

\* The byte the hex field shows at column i.
ShownByte(i) ==
    16 * NibbleOf(ShownLine[GroupAt(i)]) + NibbleOf(ShownLine[GroupAt(i) + 1])

ShownWindow == [k \in 1..ShownCount |-> ShownByte(k - 1)]

\* The number the address column shows.
RECURSIVE HexNumber(_)
HexNumber(s) ==
    IF s = <<>> THEN 0
    ELSE 16 * HexNumber(SubSeq(s, 1, Len(s) - 1)) + NibbleOf(s[Len(s)])

\* C14: display shift changes only the byte window, never the address.
\* For the line at offset o under shift s, column i shows content[o - s + i]
\* when that index is inside the file and the zero byte when it is negative,
\* and no column lies past the end of the file; the window has at most 16
\* bytes; with s = 0 it is the raw window content[o .. o + 16); with s = 4
\* and o = 0 it is four zero bytes followed by content[0 .. 12); the address
\* column shows o.
C14_ShiftMovesWindowOnly ==
    LineShown =>
        \A o \in {ShownOffset} : \A s \in {display_shift} :
            /\ ShownCount \in 0..16
            /\ \A i \in 0..15 :
                   /\ o - s + i < 0 => i < ShownCount /\ ShownByte(i) = 0
                   /\ o - s + i \in 0..(file_size - 1) =>
                          /\ i < ShownCount
                          /\ ShownByte(i) = file_content[o - s + i + 1]
                   /\ o - s + i >= file_size => i >= ShownCount
            /\ s = 0 =>
                   ShownWindow = SubSeq(file_content, o + 1,
                                        Min(o + 16, file_size))
            /\ s = 4 /\ o = 0 =>
                   ShownWindow = <<0, 0, 0, 0>>
                                 \o SubSeq(file_content, 1, Min(12, file_size))
            /\ HexNumber(SubSeq(ShownLine, 1, 8)) = o
            /\ SubSeq(ShownLine, 9, 10) = <<58, 32>>

\* The first line of a file of at least 12 bytes was formatted under a
\* shift of 4: four zero bytes, then the first twelve bytes of the file.
C14_Witness ==
    /\ LineShown
    /\ display_shift = 4
    /\ ShownOffset = 0
    /\ file_size >= 12
    /\ ShownCount = 16
    /\ ShownByte(3) = 0
    /\ ShownByte(5) = 1

\* The bytes a line at offset o under shift s has to show: one per column
\* 0..15 that does not lie past the end of the file.
WindowSize(o, s) == Cardinality({i \in 0..15 : o - s + i < file_size})

WindowByte(o, s, i) ==
    IF o - s + i < 0 THEN 0 ELSE file_content[o - s + i + 1]

\* n groups of two lowercase digits and a blank, a second blank after the
\* 8th group, blanks up to 50 characters.
HexField(o, s) ==
    LET n == WindowSize(o, s)
        groups == Flatten([k \in 1..n |->
                     << HexLower[(WindowByte(o, s, k - 1) \div 16) + 1],
                        HexLower[(WindowByte(o, s, k - 1) % 16) + 1], 32 >>
                     \o (IF k = 8 THEN <<32>> ELSE <<>>)])
    IN  groups \o [k \in 1..(50 - Len(groups)) |-> 32]

\* C15: for every display window of n bytes, whatever their values, the hex
\* field is n groups of two lowercase hex digits, with one extra space after
\* the 8th group, right-padded to 50 characters for every n, so that the
\* character field starts at the same column on a short line as on a full
\* one.
C15_HexFieldFixedWidth ==
    LineShown =>
        \A o \in {ShownOffset} : \A s \in {display_shift} :
            /\ Len(ShownLine) = 63 + WindowSize(o, s)
            /\ Len(HexField(o, s)) = 50
            /\ SubSeq(ShownLine, 11, 60) = HexField(o, s)
            /\ SubSeq(ShownLine, 61, 62) = <<32, 9474>>
            /\ ShownLine[Len(ShownLine)] = 9474

\* The second line of a file of 18 bytes was formatted: two groups, the
\* second of them ff, and the character field at its usual column.
C15_Witness ==
    /\ LineShown
    /\ ShownOffset = 16
    /\ display_shift = 0
    /\ ShownCount = 2
    /\ SubSeq(ShownLine, 11, 16) = <<51, 48, 32, 102, 102, 32>>
    /\ ShownLine[62] = 9474

\* The glyphs between the two delimiters of the line.
ShownGlyphs == SubSeq(ShownLine, 63, Len(ShownLine) - 1)

\* decode refuses the byte under the codec, whatever it raises.
FailsToDecode(byte, codec) == DecodeByte(byte, codec) < 0

\* The columns of the line at offset o under shift s whose byte fails to
\* decode, in ascending order.
FailingColumns(o, s) ==
    LET Fails(i) == FailsToDecode(WindowByte(o, s, i), encoding)
    IN  SelectSeq([k \in 1..WindowSize(o, s) |-> k - 1], Fails)

\* C16: a byte that cannot be decoded under the active codec never aborts
\* rendering.  format_line always returns a line with one glyph per
\* displayed byte between the two delimiters, the glyph is '?' at every
\* column whose byte fails to decode, and the error positions are the
\* ascending list of those columns (every column under utf-16-le).
C16_UndecodableByteIsFlagged ==
    call.op = "format_line" =>
        \A o \in {ShownOffset} : \A s \in {display_shift} :
            /\ call.ret = "line"
            /\ ShownLine[62] = 9474
            /\ ShownLine[Len(ShownLine)] = 9474
            /\ Len(ShownGlyphs) = WindowSize(o, s)
            /\ \A i \in 0..(WindowSize(o, s) - 1) :
                   FailsToDecode(WindowByte(o, s, i), encoding) =>
                       ShownGlyphs[i + 1] = 63
            /\ call.line.error_positions = FailingColumns(o, s)
            /\ encoding = "utf-16-le" =>
                   call.line.error_positions =
                       [k \in 1..WindowSize(o, s) |-> k - 1]

\* s is how a non-negative integer is printed: digits only, no sign, and no
\* leading zero.
IsUnsignedText(s) ==
    /\ Len(s) >= 1
    /\ \A k \in 1..Len(s) : s[k] \in 48..57
    /\ Len(s) > 1 => s[1] # 48

\* The first n bytes of the window of the line at offset o under shift s,
\* least significant first under the byte order in force.
LeadingBytes(o, s, n) ==
    IF endian = "little" THEN [k \in 1..n |-> WindowByte(o, s, k - 1)]
    ELSE [k \in 1..n |-> WindowByte(o, s, n - k)]

\* C17: with show_values on and a window d of at least 4 bytes the line
\* carries int16 = d[0] + 256 d[1] and int32 = d[0] + 256 d[1] + 65536 d[2] +
\* 16777216 d[3] under little endian, the bytes taken in reverse under big
\* endian, both printed unsigned; 00 01 02 03 gives 256 and 50462976.  With
\* show_values off or fewer than 4 bytes there is no value suffix, and the
\* line is the same either way.
C17_ValuesAreUnsignedIntegers ==
    LineShown =>
        \A o \in {ShownOffset} : \A s \in {display_shift} :
            /\ Len(ShownLine) = 63 + WindowSize(o, s)
            /\ IF show_values /\ WindowSize(o, s) >= 4
               THEN /\ Len(call.line.values) = 1
                    /\ \A v \in {call.line.values[1]} :
                           /\ IsUnsignedText(v.int16)
                           /\ FitsU16(v.int16)
                           /\ DigitsToBytesLE(v.int16, 2) = LeadingBytes(o, s, 2)
                           /\ IsUnsignedText(v.int32)
                           /\ FitsU32(v.int32)
                           /\ DigitsToBytesLE(v.int32, 4) = LeadingBytes(o, s, 4)
                           /\ (endian = "little"
                               /\ LeadingBytes(o, s, 4) = <<0, 1, 2, 3>>) =>
                                  /\ v.int16 = <<50, 53, 54>>
                                  /\ v.int32 = <<53, 48, 52, 54, 50, 57, 55, 54>>
               ELSE call.line.values = <<>>

\* The first line of a file that starts 00 01 02 03 was formatted with the
\* values on under little endian: int16 256 and int32 50462976.
C17_Witness ==
    /\ LineShown
    /\ show_values
    /\ endian = "little"
    /\ display_shift = 0
    /\ ShownOffset = 0
    /\ Len(call.line.values) = 1
    /\ call.line.values[1].int16 = <<50, 53, 54>>
    /\ call.line.values[1].int32 = <<53, 48, 52, 54, 50, 57, 55, 54>>

C22_ListsAndCursorAgree ==
    /\ Len(search_results) = Len(search_result_types)
    /\ \/ search_results = <<>> /\ current_search_idx = -1
       \/ current_search_idx \in 0..(Len(search_results) - 1)

\* A search has just been cut short by an encoding failure, in investigate
\* mode, after an earlier search had moved the current offset to a hit: the
\* lists are empty and the cursor is -1.
C22_Witness ==
    /\ call.op = "search"
    /\ call.ret = "raised"
    /\ show_investigate
    /\ current_offset > 0
    /\ search_results = <<>>
    /\ search_result_types = <<>>
    /\ current_search_idx = -1

(***************************************************************************)
(* Termination of the scan.                                                *)
(***************************************************************************)
\* A pass of the loop either ends the scan or leaves the scan position
\* strictly further, and never beyond the end of the file.
ScanStopsOrAdvances ==
    [][(call.op = "scan" /\ call.ret = "scanning") =>
           \/ call'.ret = "done"
           \/ ScanStart' \in (ScanStart + 1)..file_size]_vars

\* The candidate of a scan that has returned has contributed at most bound
\* hits, and each candidate of a search at most as many, seven times as many
\* in all.
HitsWithin(bound) ==
    /\ (call.op = "scan" /\ call.ret = "done") =>
           Len(search_results) <= bound
    /\ call.op = "search" =>
           /\ \A tag \in Range(search_result_types) :
                  Cardinality(TagIndices(tag)) <= bound
           /\ Len(search_results) <= 7 * bound

\* C23: the scan of one candidate terminates for every file size, every
\* from_offset >= 0 and every pattern, the empty one and one longer than the
\* file included: each pass of the loop stops or strictly increases the
\* scan position, a candidate contributes at most file_size - from_offset
\* hits and a whole search at most seven times that.
C23_ScanTerminates ==
    /\ ScanStopsOrAdvances
    /\ [] HitsWithin(file_size - call.from)
    /\ <>(call.ret # "scanning")

\* C23 as amended: the same, with at most file_size - from_offset hits when
\* from_offset is inside the file or at its end, and none when it is beyond.
C23_ScanTerminatesWithinFile ==
    /\ ScanStopsOrAdvances
    /\ [] HitsWithin(Max(0, file_size - call.from))
    /\ <>(call.ret # "scanning")

\* The scan of the empty pattern from offset 1 of a file of at least three
\* bytes has returned, with a hit at every offset from 1 on.
C23_Witness ==
    /\ call.op = "scan"
    /\ call.ret = "done"
    /\ call.pattern = <<>>
    /\ call.from = 1
    /\ file_size >= 3
    /\ Len(search_results) = file_size - 1

=============================================================================
